---------------------------- MODULE Spec2Model ----------------------------
(***************************************************************************)
(* Model of simple_pushota.c: the request handler ota_receive(), which     *)
(* accumulates an HTTP-like header from a socket, classifies the request,  *)
(* and streams the body of a POST into the next OTA partition.             *)
(*                                                                         *)
(* Bytes are ASCII codes.  Pointers into buf are 0-based offsets, NULL is  *)
(* -1.  The peer is a byte stream (what it sends before closing) that the  *)
(* transport hands over in chunks of any size.                             *)
(***************************************************************************)
EXTENDS Integers, Sequences, FiniteSets, TLC

(***************************************************************************)
(* Program constants                                                       *)
(***************************************************************************)
OTA_BUFSIZE == 1024

NULL == -1
NUL == 0
LONG_MAX == 2147483647
OVERFLOW == -1

ESP_OK == "ESP_OK"
ESP_FAIL == "ESP_FAIL"
ESP_ERR_NOT_SUPPORTED == "ESP_ERR_NOT_SUPPORTED"

\* error codes the app_update calls can hand back besides ESP_OK
OtaErrors == {"ESP_ERR_OTA_VALIDATE_FAILED", "ESP_ERR_INVALID_ARG"}

\* "\r\n\r\n"
Separator == <<13, 10, 13, 10>>
\* "GET "
TokGET == <<71, 69, 84, 32>>
\* "DELETE "
TokDELETE == <<68, 69, 76, 69, 84, 69, 32>>
\* "POST "
TokPOST == <<80, 79, 83, 84, 32>>
\* "Content-Length:"
TokContentLength == <<67, 111, 110, 116, 101, 110, 116, 45, 76, 101, 110, 103, 116, 104, 58>>

(***************************************************************************)
(* Bounds of the model                                                     *)
(***************************************************************************)
\* the most bytes the transport hands over in one recv()
MaxChunk == 48
\* length of the over-long header stream beyond the buffer capacity
LongExtra == 40

(***************************************************************************)
(* libc string functions, computed on byte sequences                       *)
(***************************************************************************)
SetMin(S) == CHOOSE x \in S : \A y \in S : x <= y

Min2(a, b) == IF a < b THEN a ELSE b

\* the C string starting at q[1]: the bytes before the first NUL
CStr(q) ==
    LET z == {i \in 1..Len(q) : q[i] = NUL}
    IN  IF z = {} THEN q ELSE SubSeq(q, 1, SetMin(z) - 1)

\* strstr(hay, needle): 0-based offset of the first occurrence, or NULL
strstr(hay, needle) ==
    LET h == CStr(hay)
        m == {i \in 0..(Len(h) - Len(needle)) :
                 SubSeq(h, i + 1, i + Len(needle)) = needle}
    IN  IF m = {} THEN NULL ELSE SetMin(m)

\* strncmp(str, tok, strlen(tok)) == 0
strncmpEq(str, tok) ==
    LET h == CStr(str)
    IN  Len(h) >= Len(tok) /\ SubSeq(h, 1, Len(tok)) = tok

isspace(b) == b \in {32, 9, 10, 11, 12, 13}
isdigit(b) == b \in 48..57

RECURSIVE SkipSpace(_, _)
SkipSpace(q, i) ==
    IF i <= Len(q) /\ isspace(q[i]) THEN SkipSpace(q, i + 1) ELSE i

\* the digits' value, or OVERFLOW once it exceeds LONG_MAX
RECURSIVE ParseDigits(_, _, _)
ParseDigits(q, i, acc) ==
    IF i <= Len(q) /\ isdigit(q[i])
    THEN ParseDigits(q, i + 1,
             IF acc = OVERFLOW \/ acc > (LONG_MAX - (q[i] - 48)) \div 10
             THEN OVERFLOW
             ELSE acc * 10 + (q[i] - 48))
    ELSE acc

\* strtol(str, NULL, 10) with a 32-bit long: white space, sign, digits,
\* saturating at LONG_MAX / LONG_MIN; the result is stored in an int of
\* the same width
strtol(str) ==
    LET q == CStr(str)
        i == SkipSpace(q, 1)
        neg == i <= Len(q) /\ q[i] = 45
        sgn == i <= Len(q) /\ q[i] \in {43, 45}
        v == ParseDigits(q, IF sgn THEN i + 1 ELSE i, 0)
    IN  IF neg THEN (IF v = OVERFLOW THEN (0 - LONG_MAX) - 1 ELSE 0 - v)
        ELSE (IF v = OVERFLOW THEN LONG_MAX ELSE v)

(***************************************************************************)
(* The peers: request byte streams                                         *)
(***************************************************************************)
ReqLinePOST == <<80, 79, 83, 84, 32, 47, 32, 72, 84, 84, 80, 47, 49, 46, 49, 13, 10>>
ReqLineDELETE == <<68, 69, 76, 69, 84, 69, 32, 47, 32, 72, 84, 84, 80, 47, 49, 46, 49, 13, 10>>
ReqLineGET == <<71, 69, 84, 32, 47, 32, 72, 84, 84, 80, 47, 49, 46, 49, 13, 10>>
ReqLinePUT == <<80, 85, 84, 32, 47, 32, 72, 84, 84, 80, 47, 49, 46, 49, 13, 10>>
\* "Content-Length: 4\r\n", ": 0", ": 8", ": -2"
FieldCL4 == <<67, 111, 110, 116, 101, 110, 116, 45, 76, 101, 110, 103, 116, 104, 58, 32, 52, 13, 10>>
FieldCL1 == <<67, 111, 110, 116, 101, 110, 116, 45, 76, 101, 110, 103, 116, 104, 58, 32, 49, 13, 10>>
FieldCL0 == <<67, 111, 110, 116, 101, 110, 116, 45, 76, 101, 110, 103, 116, 104, 58, 32, 48, 13, 10>>
FieldCL8 == <<67, 111, 110, 116, 101, 110, 116, 45, 76, 101, 110, 103, 116, 104, 58, 32, 56, 13, 10>>
FieldCLneg == <<67, 111, 110, 116, 101, 110, 116, 45, 76, 101, 110, 103, 116, 104, 58, 32, 45, 50, 13, 10>>
CRLF == <<13, 10>>
\* "AB", "ABCD", "AB\r\n\r\nCD", "A\0B"
BodyAB == <<65, 66>>
BodyABCD == <<65, 66, 67, 68>>
BodyABsepCD == <<65, 66, 13, 10, 13, 10, 67, 68>>
BodyNul == <<65, 0, 66, 67>>

OtherLines == {ReqLineDELETE, ReqLineGET, ReqLinePUT}
HeaderFields == {<< >>, FieldCL1, FieldCL4, FieldCL0, FieldCL8, FieldCLneg}
Bodies == {<< >>, BodyAB, BodyABCD, BodyABsepCD, BodyNul}

\* a header that never ends: "POST " followed by 'A's past the buffer size
LongStream == TokPOST \o [i \in 1..(OTA_BUFSIZE + LongExtra) |-> 65]
\* a header cut before its empty line
CutStream == ReqLinePOST \o FieldCL4

Streams ==
    {ReqLinePOST \o f \o CRLF \o b : f \in HeaderFields, b \in Bodies}
    \cup {l \o CRLF \o b : l \in OtherLines, b \in {<< >>, BodyABsepCD}}
    \cup {LongStream, CutStream}

\* esp_ota_get_next_update_partition(): no partition, or the next OTA slot
NOPART == "NULL"
Partitions == {NOPART, "ota_1"}
AppVersions == {"1.0.3"}

\* the request as the peer sent it: offset of the body, or NULL
BodyStart(str) ==
    LET m == {i \in 0..(Len(str) - 4) : SubSeq(str, i + 1, i + 4) = Separator}
    IN  IF m = {} THEN NULL ELSE SetMin(m) + 4


(***************************************************************************)
(* State                                                                   *)
(***************************************************************************)
VARIABLES
    \* build configuration and environment, fixed for one invocation
    stream,         \* the bytes the peer sends before it closes
    GETVERSION,     \* CONFIG_SIMPLE_PUSHOTA_GETVERSION is defined
    ESP8266,        \* CONFIG_IDF_TARGET_ESP8266 is defined
    upart,          \* result of esp_ota_get_next_update_partition(NULL)
    version,        \* esp_app_get_description()->version
    \* the socket
    pos,            \* bytes of stream already handed to recv()
    sent,           \* what send() was given, one entry per call
    eof,            \* a recv() returned 0
    afterResp,      \* a recv() or send() was issued after a response
    \* locals of ota_receive
    pc, buf, binstart, status, binlen, ret,
    s,              \* s - buf in the header loop; kept as the offset of
                    \* the accumulated bytes' end afterwards
    len,            \* len once the header is complete (the header loop's
                    \* own use of len ends with s += len)
    \* the app_update subsystem
    ota_handle,     \* "uninit", "open", "aborted", "ended" (finalized),
                    \* "endfail" (released by a failed esp_ota_end)
    written,        \* bytes esp_ota_write accepted, in order
    nBegin, nWrite, nEnd, nAbort, nSetBoot,
    \* the value strtol() gave for Content-Length (logged as "Image size")
    imglen,
    \* recv() calls issued by the body loop
    nBodyRecv,
    \* pushota
    conn_cb,        \* the conn_cb argument is not NULL
    listenSock,     \* the socket() descriptor: "none", "open", "listening", "closed"
    connSock,       \* the accept() descriptor: "none", "open", "closed"
    nAccept,        \* successful accept() calls
    nConnCb,        \* calls of conn_cb
    pret            \* pushota's return value, "none" until it returns

cfgVars == <<stream, GETVERSION, ESP8266, upart, version>>
sockVars == <<pos, sent, eof, afterResp>>
localVars == <<pc, buf, s, binstart, len, status, binlen, ret>>
otaVars == <<ota_handle, written, nBegin, nWrite, nEnd, nAbort, nSetBoot>>
gateVars == <<conn_cb, listenSock, connSock, nAccept, nConnCb, pret>>
vars == <<cfgVars, sockVars, localVars, otaVars, imglen, nBodyRecv, gateVars>>

Init ==
    /\ stream \in Streams
    /\ GETVERSION \in BOOLEAN
    /\ ESP8266 \in BOOLEAN
    /\ upart \in Partitions
    /\ version \in AppVersions
    /\ pos = 0 /\ sent = << >> /\ eof = FALSE /\ afterResp = FALSE
    /\ conn_cb \in BOOLEAN
    /\ listenSock = "none" /\ connSock = "none"
    /\ nAccept = 0 /\ nConnCb = 0 /\ pret = "none"
    /\ pc = "socket" /\ buf = << >> /\ s = 0 /\ binstart = NULL /\ len = 0
    /\ status = "500 Internal Server Error" /\ binlen = 0 /\ ret = ESP_FAIL
    /\ ota_handle = "uninit" /\ written = << >>
    /\ nBegin = 0 /\ nWrite = 0 /\ nEnd = 0 /\ nAbort = 0 /\ nSetBoot = 0
    /\ imglen = 0 /\ nBodyRecv = 0

(***************************************************************************)
(* The socket                                                              *)
(***************************************************************************)
\* positive results recv(sock, p, req, 0) can give now
RecvLens(req) == 1..Min2(Min2(req, Len(stream) - pos), MaxChunk)

\* results <= 0: an error at any time, 0 once the peer has sent everything
RecvFails == IF pos = Len(stream) THEN {0, -1} ELSE {-1}

\* send(sock, msg, ...): the result is ignored by the code
Send(msg) ==
    /\ sent' = Append(sent, msg)
    /\ afterResp' = (afterResp \/ sent # << >>)

(***************************************************************************)
(* Exits of ota_receive                                                    *)
(***************************************************************************)
\* outstatus: send "HTTP/1.0 <status>\r\n\r\n" and return ret
OutStatus(st, r) ==
    /\ status' = st
    /\ ret' = r
    /\ Send("HTTP/1.0 " \o st \o "\r\n\r\n")
    /\ pc' = "done"

\* esp_ota_abort(ota_handle) on a handle in state h, compiled out on ESP8266
OtaAbort(h) ==
    IF ESP8266
    THEN /\ nAbort' = nAbort
         /\ ota_handle' = h
    ELSE /\ nAbort' = nAbort + 1
         /\ ota_handle' = IF h = "open" THEN "aborted" ELSE h

FailOtaNoAbort(h) ==
    /\ nAbort' = nAbort
    /\ ota_handle' = h
    /\ OutStatus(status, ret)

\* failota: abort the OTA handle (in state h), then outstatus with the
\* status and ret the code has at that point (always the initial ones)
FailOta(h) ==
    /\ OtaAbort(h)
    /\ OutStatus(status, ret)


(***************************************************************************)
(* pushota: the listener, up to the call of ota_receive                    *)
(***************************************************************************)
handlerVars == <<cfgVars, sockVars, buf, s, binstart, len, status, binlen, ret, otaVars, imglen, nBodyRecv>>

\* sock = socket(...); if (sock < 0) return ESP_FAIL;
Socket ==
    /\ pc = "socket"
    /\ \/ /\ listenSock' = "open"
          /\ pc' = "reuse"
          /\ UNCHANGED pret
       \/ /\ pret' = ESP_FAIL
          /\ pc' = "exit"
          /\ UNCHANGED listenSock
    /\ UNCHANGED <<handlerVars, conn_cb, connSock, nAccept, nConnCb>>

\* setsockopt(SO_REUSEADDR) under CONFIG_LWIP_SO_REUSE (skipped without
\* it), bind() and listen(): any failure is a goto out
Listen ==
    /\ pc \in {"reuse", "bind", "listen"}
    /\ \/ /\ pc' = (CASE pc = "reuse" -> "bind"
                      [] pc = "bind" -> "listen"
                      [] pc = "listen" -> "accept")
          /\ listenSock' = IF pc = "listen" THEN "listening" ELSE listenSock
       \/ /\ pc' = "out"
          /\ UNCHANGED listenSock
    /\ UNCHANGED <<handlerVars, conn_cb, connSock, nAccept, nConnCb, pret>>

\* ret = accept(sock, ...); if (ret < 0) { ret = ESP_FAIL; goto out; }
Accept ==
    /\ pc = "accept"
    /\ \/ /\ nAccept' = nAccept + 1
          /\ connSock' = "open"
          /\ pc' = "close"
       \/ /\ pc' = "out"
          /\ UNCHANGED <<nAccept, connSock>>
    /\ UNCHANGED <<handlerVars, conn_cb, listenSock, nConnCb, pret>>

CloseListenerSkipped ==
    /\ pc = "close"
    /\ pc' = "cb"
    /\ UNCHANGED <<handlerVars, gateVars>>

\* close(sock); sock = ret;
CloseListener ==
    /\ pc = "close"
    /\ listenSock' = "closed"
    /\ pc' = "cb"
    /\ UNCHANGED <<handlerVars, conn_cb, connSock, nAccept, nConnCb, pret>>

\* if (conn_cb) conn_cb();
ConnCb ==
    /\ pc = "cb"
    /\ nConnCb' = IF conn_cb THEN nConnCb + 1 ELSE nConnCb
    /\ pc' = "keepalive"
    /\ UNCHANGED <<handlerVars, conn_cb, listenSock, connSock, nAccept, pret>>

\* setsockopt(SO_KEEPALIVE) fails: goto out; otherwise the other options
\* are set and ota_receive(sock) is entered
KeepAlive ==
    /\ pc = "keepalive"
    /\ pc' \in {"hdr", "out"}
    /\ UNCHANGED <<handlerVars, gateVars>>

\* out: shutdown(sock, SHUT_RDWR); close(sock); return ret;  sock is the
\* accepted connection once there is one, the listening socket before;
\* ret is ota_receive's result when it ran, ESP_FAIL otherwise
Out ==
    /\ pc \in {"out", "done"}
    /\ IF connSock = "open"
       THEN connSock' = "closed" /\ UNCHANGED listenSock
       ELSE listenSock' = "closed" /\ UNCHANGED connSock
    /\ pret' = IF pc = "done" THEN ret ELSE ESP_FAIL
    /\ pc' = "exit"
    /\ UNCHANGED <<handlerVars, conn_cb, nAccept, nConnCb>>

(***************************************************************************)
(* Header accumulation                                                     *)
(***************************************************************************)
\* binstart = strstr(s, needle) after s[len] = '\0': the search starts at
\* the bytes of the last recv(), not at buf
HdrSearch(bufv, sOff) ==
    LET r == strstr(SubSeq(bufv, sOff + 1, Len(bufv)), Separator)
    IN  IF r = NULL THEN NULL ELSE sOff + r

HdrLoopUnbounded(sOff, bs) == bs = NULL

\* while ((s-buf < sizeof(buf)-1) && !binstart)
HdrLoop(sOff, bs) == sOff < OTA_BUFSIZE - 1 /\ bs = NULL

HdrRecvSizeFull(sOff) == OTA_BUFSIZE - sOff

\* recv(sock, s, sizeof(buf) - 1 - (s - buf), 0): the size requested
HdrRecvSize(sOff) == OTA_BUFSIZE - 1 - sOff

RecvHeader ==
    /\ pc = "hdr"
    /\ \E n \in RecvLens(HdrRecvSize(s)) :
         LET nbuf == SubSeq(buf, 1, s) \o SubSeq(stream, pos + 1, pos + n)
             bs == HdrSearch(nbuf, s)
         IN  /\ buf' = nbuf
             /\ binstart' = bs
             /\ s' = s + n
             /\ pos' = pos + n
             /\ pc' = IF HdrLoop(s + n, bs) THEN "hdr" ELSE "parse"
    /\ afterResp' = (afterResp \/ sent # << >>)
    /\ UNCHANGED <<cfgVars, gateVars, sent, eof, len, status, binlen, ret, otaVars, imglen, nBodyRecv>>

RecvHeaderFailResponds ==
    /\ pc = "hdr"
    /\ \E r \in RecvFails :
         /\ eof' = (eof \/ r = 0)
    /\ OutStatus("500 Internal Server Error", ESP_FAIL)
    /\ UNCHANGED <<cfgVars, gateVars, pos, buf, s, binstart, len, binlen, otaVars, imglen, nBodyRecv>>

\* if (len <= 0) return ESP_FAIL;
RecvHeaderFail ==
    /\ pc = "hdr"
    /\ \E r \in RecvFails :
         /\ eof' = (eof \/ r = 0)
    /\ afterResp' = (afterResp \/ sent # << >>)
    /\ ret' = ESP_FAIL
    /\ pc' = "done"
    /\ UNCHANGED <<cfgVars, gateVars, pos, sent, buf, s, binstart, len, status, binlen, otaVars, imglen, nBodyRecv>>


(***************************************************************************)
(* Classification of the request                                           *)
(***************************************************************************)
\* binstart += strlen(needle)
HdrEnd == binstart + Len(Separator)

\* len = s - binstart: the bytes of the image received with the header
Leftover == SubSeq(buf, HdrEnd + 1, s)

\* c = *binstart; *binstart = '\0': buf read as a string ends at the
\* header's end (or at a NUL byte before it)
Header == CStr(SubSeq(buf, 1, HdrEnd))

MethodGetAlways(h) ==
    IF strncmpEq(h, TokGET) THEN "GET"
    ELSE IF strncmpEq(h, TokDELETE) THEN "DELETE"
    ELSE IF ~ strncmpEq(h, TokPOST) THEN "OTHER"
    ELSE "POST"

\* the chain of strncmp() tests on buf
Method(h) ==
    IF GETVERSION /\ strncmpEq(h, TokGET) THEN "GET"
    ELSE IF strncmpEq(h, TokDELETE) THEN "DELETE"
    ELSE IF ~ strncmpEq(h, TokPOST) THEN "OTHER"
    ELSE "POST"

\* s = strstr(buf, "Content-Length:"); if (!s) ...
HasLength(h) == strstr(h, TokContentLength) # NULL

\* s += strlen(needle); binlen = strtol(s, NULL, 10)
ParseLength(h) ==
    strtol(SubSeq(h, strstr(h, TokContentLength) + Len(TokContentLength) + 1, Len(h)))

ZeroLengthAccepted(b) == FALSE

\* if (!binlen)
ZeroLength(b) == b = 0

\* if (!binstart) { status = "431 ..."; goto outstatus; }
HeaderTooLarge ==
    /\ pc = "parse"
    /\ binstart = NULL
    /\ OutStatus("431 Request Header Fields Too Large", ret)
    /\ UNCHANGED <<cfgVars, gateVars, pos, eof, buf, s, binstart, len, binlen, otaVars, imglen, nBodyRecv>>

GetVersionOk ==
    /\ pc = "parse"
    /\ binstart # NULL
    /\ Method(Header) = "GET"
    /\ Send("HTTP/1.0 200 OK\r\n\r\nVersion: " \o version \o "\n")
    /\ ret' = ESP_OK
    /\ pc' = "done"
    /\ len' = s - HdrEnd
    /\ UNCHANGED <<cfgVars, gateVars, pos, eof, buf, s, binstart, status, binlen, otaVars, imglen, nBodyRecv>>

\* sprintf(buf, "HTTP/1.0 200 OK\r\n\r\nVersion: %s\n", ...); send; return ESP_FAIL
GetVersion ==
    /\ pc = "parse"
    /\ binstart # NULL
    /\ Method(Header) = "GET"
    /\ Send("HTTP/1.0 200 OK\r\n\r\nVersion: " \o version \o "\n")
    /\ ret' = ESP_FAIL
    /\ pc' = "done"
    /\ len' = s - HdrEnd
    /\ UNCHANGED <<cfgVars, gateVars, pos, eof, buf, s, binstart, status, binlen, otaVars, imglen, nBodyRecv>>

DeleteKeepsRet ==
    /\ pc = "parse"
    /\ binstart # NULL
    /\ Method(Header) = "DELETE"
    /\ OutStatus("204 No Content", ret)
    /\ len' = s - HdrEnd
    /\ UNCHANGED <<cfgVars, gateVars, pos, eof, buf, s, binstart, binlen, otaVars, imglen, nBodyRecv>>

\* status = "204 No Content"; ret = ESP_OK; goto outstatus
Delete ==
    /\ pc = "parse"
    /\ binstart # NULL
    /\ Method(Header) = "DELETE"
    /\ OutStatus("204 No Content", ESP_OK)
    /\ len' = s - HdrEnd
    /\ UNCHANGED <<cfgVars, gateVars, pos, eof, buf, s, binstart, binlen, otaVars, imglen, nBodyRecv>>

\* status = "405 Method Not Allowed"; goto outstatus
MethodNotAllowed ==
    /\ pc = "parse"
    /\ binstart # NULL
    /\ Method(Header) = "OTHER"
    /\ OutStatus("405 Method Not Allowed", ret)
    /\ len' = s - HdrEnd
    /\ UNCHANGED <<cfgVars, gateVars, pos, eof, buf, s, binstart, binlen, otaVars, imglen, nBodyRecv>>

NoPartitionGenericFail ==
    /\ pc = "parse"
    /\ binstart # NULL
    /\ Method(Header) = "POST"
    /\ upart = NOPART
    /\ OutStatus("501 Not Implemented", ESP_FAIL)
    /\ len' = s - HdrEnd
    /\ UNCHANGED <<cfgVars, gateVars, pos, eof, buf, s, binstart, binlen, otaVars, imglen, nBodyRecv>>

\* if (!upart) { status = "501 ..."; ret = ESP_ERR_NOT_SUPPORTED; goto outstatus; }
NoPartition ==
    /\ pc = "parse"
    /\ binstart # NULL
    /\ Method(Header) = "POST"
    /\ upart = NOPART
    /\ OutStatus("501 Not Implemented", ESP_ERR_NOT_SUPPORTED)
    /\ len' = s - HdrEnd
    /\ UNCHANGED <<cfgVars, gateVars, pos, eof, buf, s, binstart, binlen, otaVars, imglen, nBodyRecv>>

\* no Content-Length, or strtol() gave 0: status = "411 Length Required"
LengthRequired ==
    /\ pc = "parse"
    /\ binstart # NULL
    /\ Method(Header) = "POST"
    /\ upart # NOPART
    /\ \/ /\ ~ HasLength(Header)
          /\ UNCHANGED binlen
       \/ /\ HasLength(Header)
          /\ ZeroLength(ParseLength(Header))
          /\ binlen' = ParseLength(Header)
    /\ OutStatus("411 Length Required", ret)
    /\ len' = s - HdrEnd
    /\ UNCHANGED <<cfgVars, gateVars, pos, eof, buf, s, binstart, otaVars, imglen, nBodyRecv>>

(***************************************************************************)
(* Upload: esp_ota_begin and the leftover of the header reads              *)
(***************************************************************************)
Upload ==
    /\ pc = "parse"
    /\ binstart # NULL
    /\ Method(Header) = "POST"
    /\ upart # NOPART
    /\ HasLength(Header)
    /\ ~ ZeroLength(ParseLength(Header))

\* binlen -= len after the leftover was written
AfterWrite(b, n) == b - n

\* while (binlen)
LoopCond(b) == b # 0

\* esp_ota_begin() != ESP_OK: goto failota, with ota_handle never set
OtaBeginFail ==
    /\ Upload
    /\ binlen' = ParseLength(Header)
    /\ imglen' = ParseLength(Header)
    /\ len' = s - HdrEnd
    /\ nBegin' = nBegin + 1
    /\ FailOta(ota_handle)
    /\ UNCHANGED <<cfgVars, gateVars, pos, eof, buf, s, binstart, written, nWrite, nEnd, nSetBoot, nBodyRecv>>

\* esp_ota_begin() succeeds; the leftover, if any, is written and counted
OtaBegin ==
    /\ Upload
    /\ imglen' = ParseLength(Header)
    /\ len' = s - HdrEnd
    /\ nBegin' = nBegin + 1
    /\ ota_handle' = "open"
    /\ IF s - HdrEnd # 0
       THEN /\ nWrite' = nWrite + 1
            /\ written' = written \o Leftover
            /\ binlen' = AfterWrite(ParseLength(Header), s - HdrEnd)
       ELSE /\ binlen' = ParseLength(Header)
            /\ UNCHANGED <<nWrite, written>>
    /\ pc' = IF LoopCond(binlen') THEN "body" ELSE "post"
    /\ UNCHANGED <<cfgVars, gateVars, sockVars, buf, s, binstart, status, ret, nEnd, nAbort, nSetBoot, nBodyRecv>>

\* esp_ota_begin() succeeds, esp_ota_write() of the leftover fails
OtaBeginWriteFail ==
    /\ Upload
    /\ s - HdrEnd # 0
    /\ binlen' = ParseLength(Header)
    /\ imglen' = ParseLength(Header)
    /\ len' = s - HdrEnd
    /\ nBegin' = nBegin + 1
    /\ nWrite' = nWrite + 1
    /\ FailOta("open")
    /\ UNCHANGED <<cfgVars, gateVars, pos, eof, buf, s, binstart, written, nEnd, nSetBoot, nBodyRecv>>

(***************************************************************************)
(* Upload: the body loop                                                   *)
(***************************************************************************)
\* (sizeof(buf) < binlen) ? sizeof(buf) : binlen; binlen is converted to
\* size_t for the comparison, so a negative binlen compares as a huge value
RecvSize(b) == IF b < 0 \/ OTA_BUFSIZE < b THEN OTA_BUFSIZE ELSE b

\* recv() gives n > 0 bytes at buf, esp_ota_write() takes them
RecvBody ==
    /\ pc = "body"
    /\ \E n \in RecvLens(RecvSize(binlen)) :
         LET chunk == SubSeq(stream, pos + 1, pos + n)
         IN  /\ buf' = chunk \o SubSeq(buf, n + 1, Len(buf))
             /\ len' = n
             /\ pos' = pos + n
             /\ written' = written \o chunk
             /\ binlen' = AfterWrite(binlen, n)
             /\ pc' = IF LoopCond(AfterWrite(binlen, n)) THEN "body" ELSE "post"
    /\ nWrite' = nWrite + 1
    /\ nBodyRecv' = nBodyRecv + 1
    /\ afterResp' = (afterResp \/ sent # << >>)
    /\ UNCHANGED <<cfgVars, gateVars, sent, eof, s, binstart, status, ret, ota_handle, nBegin, nEnd, nAbort, nSetBoot, imglen>>

RecvBodyWriteIgnored ==
    /\ pc = "body"
    /\ \E n \in RecvLens(RecvSize(binlen)) :
         /\ buf' = SubSeq(stream, pos + 1, pos + n) \o SubSeq(buf, n + 1, Len(buf))
         /\ len' = n
         /\ pos' = pos + n
    /\ nWrite' = nWrite + 1
    /\ nBodyRecv' = nBodyRecv + 1
    /\ binlen' = AfterWrite(binlen, len')
    /\ afterResp' = (afterResp \/ sent # << >>)
    /\ UNCHANGED <<pc, sent, status, ret, ota_handle, nAbort>>
    /\ UNCHANGED <<cfgVars, gateVars, eof, s, binstart, written, nBegin, nEnd, nSetBoot, imglen>>

\* recv() gives n > 0 bytes, esp_ota_write() fails: goto failota
RecvBodyWriteFail ==
    /\ pc = "body"
    /\ \E n \in RecvLens(RecvSize(binlen)) :
         /\ buf' = SubSeq(stream, pos + 1, pos + n) \o SubSeq(buf, n + 1, Len(buf))
         /\ len' = n
         /\ pos' = pos + n
    /\ nWrite' = nWrite + 1
    /\ nBodyRecv' = nBodyRecv + 1
    /\ FailOta(ota_handle)
    /\ UNCHANGED <<cfgVars, gateVars, eof, s, binstart, binlen, written, nBegin, nEnd, nSetBoot, imglen>>

RecvBodyFailLeaks ==
    /\ pc = "body"
    /\ len' = -1
    /\ nBodyRecv' = nBodyRecv + 1
    /\ UNCHANGED <<ota_handle, nAbort>>
    /\ OutStatus(status, ret)
    /\ UNCHANGED <<cfgVars, gateVars, pos, eof, buf, s, binstart, binlen, written, nBegin, nWrite, nEnd, nSetBoot, imglen>>

\* recv() < 0: goto failota
RecvBodyFail ==
    /\ pc = "body"
    /\ len' = -1
    /\ nBodyRecv' = nBodyRecv + 1
    /\ FailOta(ota_handle)
    /\ UNCHANGED <<cfgVars, gateVars, pos, eof, buf, s, binstart, binlen, written, nBegin, nWrite, nEnd, nSetBoot, imglen>>

\* recv() == 0: EOF, break
RecvBodyEOF ==
    /\ pc = "body"
    /\ pos = Len(stream)
    /\ len' = 0
    /\ eof' = TRUE
    /\ nBodyRecv' = nBodyRecv + 1
    /\ afterResp' = (afterResp \/ sent # << >>)
    /\ pc' = "post"
    /\ UNCHANGED <<cfgVars, gateVars, pos, sent, buf, s, binstart, status, binlen, ret, otaVars, imglen>>

(***************************************************************************)
(* Upload: after the loop                                                  *)
(***************************************************************************)
IncompleteSignOnly(b) == b < 0

\* if (binlen) goto failota
Incomplete(b) == b # 0

IncompleteTransfer ==
    /\ pc = "post"
    /\ Incomplete(binlen)
    /\ FailOta(ota_handle)
    /\ UNCHANGED <<cfgVars, gateVars, pos, eof, buf, s, binstart, len, binlen, written, nBegin, nWrite, nEnd, nSetBoot, imglen, nBodyRecv>>

OtaEndUnchecked ==
    /\ pc = "post"
    /\ ~ Incomplete(binlen)
    /\ nEnd' = nEnd + 1
    /\ \E r \in {ESP_OK} \cup OtaErrors :
         /\ ret' = r
         /\ ota_handle' = IF r = ESP_OK THEN "ended" ELSE "endfail"
         /\ pc' = "boot"
    /\ UNCHANGED <<cfgVars, gateVars, sockVars, buf, s, binstart, len, status, binlen, written, nBegin, nWrite, nAbort, nSetBoot, imglen, nBodyRecv>>

\* ret = esp_ota_end(ota_handle); if (ret != ESP_OK) return ret;
OtaEnd ==
    /\ pc = "post"
    /\ ~ Incomplete(binlen)
    /\ nEnd' = nEnd + 1
    /\ \E r \in {ESP_OK} \cup OtaErrors :
         /\ ret' = r
         /\ ota_handle' = IF r = ESP_OK THEN "ended" ELSE "endfail"
         /\ pc' = IF r = ESP_OK THEN "boot" ELSE "done"
    /\ UNCHANGED <<cfgVars, gateVars, sockVars, buf, s, binstart, len, status, binlen, written, nBegin, nWrite, nAbort, nSetBoot, imglen, nBodyRecv>>

SetBootReportsOk ==
    /\ pc = "boot"
    /\ nSetBoot' = nSetBoot + 1
    /\ \E r \in {ESP_OK} \cup OtaErrors :
         /\ ret' = ESP_OK
         /\ Send(IF r = ESP_OK
                 THEN "HTTP/1.0 200 OK\r\n\r\nNext boot partition: " \o upart \o "\n"
                 ELSE "HTTP/1.0 500 Internal Server Error\r\n\r\nFailed (" \o r \o ").\n")
    /\ pc' = "done"
    /\ UNCHANGED <<cfgVars, gateVars, pos, eof, buf, s, binstart, len, status, binlen, ota_handle, written, nBegin, nWrite, nEnd, nAbort, imglen, nBodyRecv>>

\* ret = esp_ota_set_boot_partition(upart); sprintf; send; return ret
SetBoot ==
    /\ pc = "boot"
    /\ nSetBoot' = nSetBoot + 1
    /\ \E r \in {ESP_OK} \cup OtaErrors :
         /\ ret' = r
         /\ Send(IF r = ESP_OK
                 THEN "HTTP/1.0 200 OK\r\n\r\nNext boot partition: " \o upart \o "\n"
                 ELSE "HTTP/1.0 500 Internal Server Error\r\n\r\nFailed (" \o r \o ").\n")
    /\ pc' = "done"
    /\ UNCHANGED <<cfgVars, gateVars, pos, eof, buf, s, binstart, len, status, binlen, ota_handle, written, nBegin, nWrite, nEnd, nAbort, imglen, nBodyRecv>>

Next ==
    \/ Socket
    \/ Listen
    \/ Accept
    \/ CloseListener
    \/ ConnCb
    \/ KeepAlive
    \/ Out
    \/ RecvHeader
    \/ RecvHeaderFail
    \/ HeaderTooLarge
    \/ GetVersion
    \/ Delete
    \/ MethodNotAllowed
    \/ NoPartition
    \/ LengthRequired
    \/ OtaBeginFail
    \/ OtaBegin
    \/ OtaBeginWriteFail
    \/ RecvBody
    \/ RecvBodyWriteFail
    \/ RecvBodyFail
    \/ RecvBodyEOF
    \/ IncompleteTransfer
    \/ OtaEnd
    \/ SetBoot

Spec == Init /\ [][Next]_vars


(***************************************************************************)
(* Vocabulary of the properties                                            *)
(***************************************************************************)
Returned == pc = "done"

\* ota_receive left the header loop through "return ESP_FAIL"
HeaderReadFailed == Returned /\ HdrLoop(s, binstart)

\* the header loop found the separator
HeaderComplete == binstart # NULL

\* the header region as ota_receive delimited it (buf held stream's first
\* s bytes at that point)
HeaderRegion == CStr(SubSeq(stream, 1, HdrEnd))

NoStorageCalls ==
    nBegin = 0 /\ nWrite = 0 /\ nEnd = 0 /\ nAbort = 0 /\ nSetBoot = 0

Response(st) == "HTTP/1.0 " \o st \o "\r\n\r\n"

\* the body loop saw EOF with fewer bytes written than declared
EarlyEOF == eof /\ nBodyRecv > 0 /\ Len(written) < imglen

(***************************************************************************)
(* C1 (as claimed): every return of ota_receive other than the header      *)
(* loop's "return ESP_FAIL" has written exactly one response, never more   *)
(* than one response is written, and no recv() or send() follows it.       *)
(***************************************************************************)
C1_ExactlyOneResponse ==
    /\ Len(sent) <= 1
    /\ ~ afterResp
    /\ (Returned /\ ~ HeaderReadFailed) => Len(sent) = 1

(***************************************************************************)
(* C2: esp_ota_end is called only with binlen = 0, and the bytes accepted  *)
(* by esp_ota_write then number exactly the declared Content-Length.       *)
(***************************************************************************)
C2_FinalizeOnlyWhenComplete ==
    nEnd > 0 => (nEnd = 1 /\ binlen = 0 /\ Len(written) = imglen)

C2_Witness ==
    nEnd = 1 /\ nWrite >= 3 /\ nBodyRecv >= 2 /\ Len(written) = 8

C4_WrittenIsBodyReceived ==
    pc \in {"body", "post", "boot"} =>
        /\ BodyStart(stream) # NULL
        /\ written = SubSeq(stream, BodyStart(stream) + 1, pos)

(***************************************************************************)
(* C5: ota_receive returns ESP_OK only for a DELETE request, or after      *)
(* esp_ota_begin, writes of exactly the declared length, a successful      *)
(* esp_ota_end and a successful esp_ota_set_boot_partition.                *)
(***************************************************************************)
C5_OkOnlyWhenSafe ==
    (Returned /\ ret = ESP_OK) =>
        \/ /\ HeaderComplete
           /\ strncmpEq(HeaderRegion, TokDELETE)
        \/ /\ nBegin = 1 /\ nEnd = 1 /\ nSetBoot = 1 /\ nAbort = 0
           /\ ota_handle = "ended"
           /\ imglen # 0
           /\ Len(written) = imglen
           /\ sent = <<"HTTP/1.0 200 OK\r\n\r\nNext boot partition: " \o upart \o "\n">>

C5_Witness ==
    Returned /\ ret = ESP_OK /\ nSetBoot = 1 /\ Len(written) = 4

(***************************************************************************)
(* C6: a request that starts with "DELETE " never leads to a call of       *)
(* esp_ota_begin/write/end/abort/set_boot_partition nor to a body read;    *)
(* once its header is complete it is answered 204 No Content and the       *)
(* result is ESP_OK.                                                       *)
(***************************************************************************)
C6_DeleteTouchesNothing ==
    strncmpEq(stream, TokDELETE) =>
        /\ NoStorageCalls
        /\ nBodyRecv = 0
        /\ (Returned /\ HeaderComplete) =>
              /\ sent = <<Response("204 No Content")>>
              /\ ret = ESP_OK

C6_Witness ==
    /\ Returned /\ HeaderComplete /\ strncmpEq(stream, TokDELETE)
    /\ Len(sent) = 1 /\ upart # NOPART /\ pos < Len(stream)

POSTWithoutLength ==
    /\ Returned /\ HeaderComplete
    /\ strncmpEq(HeaderRegion, TokPOST)
    /\ \/ ~ HasLength(HeaderRegion)
       \/ ParseLength(HeaderRegion) = 0

(***************************************************************************)
(* C7 (as claimed): a POST without Content-Length, or with one that        *)
(* parses to 0, is answered 411 Length Required with a failure result and  *)
(* no storage call, whether or not an update partition exists.             *)
(***************************************************************************)
C7_LengthRequiredAlways ==
    POSTWithoutLength =>
        /\ sent = <<Response("411 Length Required")>>
        /\ ret # ESP_OK
        /\ NoStorageCalls

(***************************************************************************)
(* C7 (amended): such a POST is answered 411 Length Required with result   *)
(* ESP_FAIL when an update partition exists, and 501 Not Implemented with  *)
(* result ESP_ERR_NOT_SUPPORTED when none exists; in both cases no storage *)
(* call is made.                                                           *)
(***************************************************************************)
C7_LengthRequired ==
    POSTWithoutLength =>
        /\ NoStorageCalls
        /\ nBodyRecv = 0
        /\ IF upart # NOPART
           THEN sent = <<Response("411 Length Required")>> /\ ret = ESP_FAIL
           ELSE sent = <<Response("501 Not Implemented")>>
                /\ ret = ESP_ERR_NOT_SUPPORTED

C7_Witness ==
    /\ POSTWithoutLength /\ HasLength(HeaderRegion) /\ upart # NOPART
    /\ sent = <<Response("411 Length Required")>>

(***************************************************************************)
(* C8 (as claimed): the header loop does not go on to another read once    *)
(* CR LF CR LF is present anywhere in the bytes accumulated so far.        *)
(***************************************************************************)
C8_StopsAtSeparator ==
    pc = "hdr" => BodyStart(SubSeq(buf, 1, s)) = NULL

(***************************************************************************)
(* C9: when the header loop ends with OTA_BUFSIZE - 1 bytes accumulated    *)
(* and no separator found, the response is 431, the result is ESP_FAIL,    *)
(* nothing more is read and no storage call is made.                       *)
(***************************************************************************)
C9_HeaderTooLarge ==
    (Returned /\ s = OTA_BUFSIZE - 1 /\ ~ HeaderComplete) =>
        /\ sent = <<Response("431 Request Header Fields Too Large")>>
        /\ ret = ESP_FAIL
        /\ pos = OTA_BUFSIZE - 1
        /\ nBodyRecv = 0
        /\ NoStorageCalls

C9_Witness ==
    /\ Returned /\ s = OTA_BUFSIZE - 1 /\ ~ HeaderComplete
    /\ Len(sent) = 1 /\ pos < Len(stream)

(***************************************************************************)
(* C10: with CONFIG_SIMPLE_PUSHOTA_GETVERSION, a request that starts with  *)
(* "GET " never leads to a storage call and never yields ESP_OK; once its  *)
(* header is complete it is answered 200 OK with the version string and    *)
(* the result is ESP_FAIL.                                                 *)
(***************************************************************************)
C10_GetVersionFails ==
    (GETVERSION /\ strncmpEq(stream, TokGET)) =>
        /\ NoStorageCalls
        /\ nBodyRecv = 0
        /\ ret = ESP_FAIL
        /\ (Returned /\ HeaderComplete) =>
              sent = <<"HTTP/1.0 200 OK\r\n\r\nVersion: " \o version \o "\n">>

C10_Witness ==
    /\ Returned /\ HeaderComplete /\ GETVERSION /\ strncmpEq(stream, TokGET)
    /\ Len(sent) = 1 /\ upart # NOPART


\* the pc values inside ota_receive, from its entry to its return
HandlerPcs == {"hdr", "parse", "body", "post", "boot", "done"}

(***************************************************************************)
(* C11: pushota accepts at most one connection; from the entry of          *)
(* ota_receive on (so before any read) the listening socket is closed;     *)
(* conn_cb is called at most once, only after the accept, and when it is   *)
(* given it has been called before ota_receive is entered.                 *)
(***************************************************************************)
C11_OneConnection ==
    /\ nAccept <= 1
    /\ nConnCb <= 1
    /\ nConnCb = 1 => (conn_cb /\ nAccept = 1 /\ listenSock = "closed")
    /\ (pc \in HandlerPcs \/ pos > 0 \/ eof) =>
          /\ nAccept = 1
          /\ listenSock = "closed"
          /\ nConnCb = IF conn_cb THEN 1 ELSE 0
    /\ pc \in {"cb", "keepalive"} => (pos = 0 /\ ~ eof /\ connSock = "open")

C11_Witness ==
    /\ pc = "exit" /\ conn_cb /\ nConnCb = 1 /\ nAccept = 1
    /\ listenSock = "closed" /\ connSock = "closed" /\ pos > 0

\* the header region starts with none of the tokens ota_receive accepts
UnsupportedMethod ==
    /\ HeaderComplete
    /\ ~ strncmpEq(HeaderRegion, TokPOST)
    /\ ~ strncmpEq(HeaderRegion, TokDELETE)
    /\ ~ (GETVERSION /\ strncmpEq(HeaderRegion, TokGET))

(***************************************************************************)
(* C12: a request whose header starts with none of "POST ", "DELETE " or   *)
(* (with version query enabled) "GET " is answered 405 Method Not Allowed  *)
(* with result ESP_FAIL and without any storage call or body read; this    *)
(* includes "GET " when version query is disabled.                         *)
(***************************************************************************)
C12_MethodNotAllowed ==
    UnsupportedMethod =>
        /\ NoStorageCalls
        /\ nBodyRecv = 0
        /\ Returned =>
              /\ sent = <<Response("405 Method Not Allowed")>>
              /\ ret = ESP_FAIL

C12_Witness ==
    /\ Returned /\ UnsupportedMethod
    /\ ~ GETVERSION /\ strncmpEq(stream, TokGET)
    /\ sent = <<Response("405 Method Not Allowed")>>


\* the pc values of the upload between esp_ota_begin and the final send
UploadPcs == {"body", "post", "boot"}

(***************************************************************************)
(* C13 (as claimed): during the upload binlen is never negative and is     *)
(* the declared length minus the bytes written so far (so it never         *)
(* increases); a body read is issued only with binlen > 0 and requests     *)
(* min(OTA_BUFSIZE, binlen) bytes.                                         *)
(***************************************************************************)
C13_CounterInRange ==
    /\ pc \in UploadPcs =>
          /\ binlen >= 0
          /\ binlen = imglen - Len(written)
    /\ pc = "body" =>
          /\ binlen > 0
          /\ RecvSize(binlen) = Min2(OTA_BUFSIZE, binlen)

\* esp_ota_begin succeeded in this invocation
Opened == ota_handle # "uninit"

Released == ota_handle \in {"aborted", "ended", "endfail"}

C15_SetBootAfterEnd ==
    /\ nSetBoot <= 1
    /\ pc = "boot" => (nEnd = 1 /\ ota_handle = "ended" /\ nSetBoot = 0)
    /\ nSetBoot = 1 =>
          /\ nEnd = 1 /\ nAbort = 0 /\ ota_handle = "ended"
          /\ pc \in {"done", "exit"}
          /\ \/ /\ ret = ESP_OK
                /\ sent = <<"HTTP/1.0 200 OK\r\n\r\nNext boot partition: " \o upart \o "\n">>
             \/ /\ ret \in OtaErrors
                /\ sent = <<"HTTP/1.0 500 Internal Server Error\r\n\r\nFailed (" \o ret \o ").\n">>
    /\ (nEnd = 1 /\ ota_handle = "endfail") => nSetBoot = 0

C15_Witness ==
    Returned /\ nSetBoot = 1 /\ ret \in OtaErrors /\ Len(sent) = 1

\* a body recv() returned < 0, or esp_ota_write refused bytes: fewer bytes
\* were written than were received after the header's end
XferFailed ==
    \/ len = -1
    \/ (nWrite > 0 /\ Len(written) < pos - HdrEnd)

C17_NoPartition ==
    upart = NOPART =>
        /\ NoStorageCalls /\ nBodyRecv = 0
        /\ (Returned /\ HeaderComplete) =>
              IF strncmpEq(HeaderRegion, TokPOST)
              THEN /\ sent = <<Response("501 Not Implemented")>>
                   /\ ret = ESP_ERR_NOT_SUPPORTED
                   /\ ret # ESP_FAIL
              ELSE IF strncmpEq(HeaderRegion, TokDELETE)
              THEN /\ sent = <<Response("204 No Content")>>
                   /\ ret = ESP_OK
              ELSE IF GETVERSION /\ strncmpEq(HeaderRegion, TokGET)
              THEN /\ sent = <<"HTTP/1.0 200 OK\r\n\r\nVersion: " \o version \o "\n">>
                   /\ ret = ESP_FAIL
              ELSE /\ sent = <<Response("405 Method Not Allowed")>>
                   /\ ret = ESP_FAIL

C17_Witness ==
    /\ Returned /\ upart = NOPART /\ HeaderComplete
    /\ strncmpEq(HeaderRegion, TokPOST)
    /\ strstr(HeaderRegion, TokContentLength) # NULL
    /\ sent = <<Response("501 Not Implemented")>>
    /\ ret = ESP_ERR_NOT_SUPPORTED

(***************************************************************************)
(* C18: in the header loop s never exceeds OTA_BUFSIZE - 1, so the NUL     *)
(* stored at buf[s] is inside buf; every header recv asks for              *)
(* OTA_BUFSIZE - 1 - s >= 1 bytes and stores them right after the s bytes  *)
(* accumulated so far, which are the first s bytes of the stream.          *)
(***************************************************************************)
C18_HeaderWithinBuffer ==
    /\ 0 <= s /\ s <= OTA_BUFSIZE - 1
    /\ pc = "hdr" =>
          /\ HdrRecvSize(s) >= 1
          /\ s + HdrRecvSize(s) = OTA_BUFSIZE - 1
          /\ \A n \in RecvLens(HdrRecvSize(s)) : 1 <= n /\ s + n <= OTA_BUFSIZE - 1
    /\ pc \in {"hdr", "parse"} =>
          /\ Len(buf) = s /\ pos = s
          /\ buf = SubSeq(stream, 1, s)
    /\ HeaderComplete => HdrEnd <= s

C18_Witness ==
    pc = "hdr" /\ s = OTA_BUFSIZE - 2 /\ Len(buf) = s /\ HdrRecvSize(s) = 1

(***************************************************************************)
(* C19: when a header recv returns 0 or less before the separator was      *)
(* found, ota_receive returns ESP_FAIL at once: nothing is sent, nothing   *)
(* more is read and no storage call is made.                               *)
(***************************************************************************)
C19_HeaderReadFailure ==
    HeaderReadFailed =>
        /\ ret = ESP_FAIL
        /\ sent = << >>
        /\ pos = s /\ nBodyRecv = 0
        /\ NoStorageCalls /\ ota_handle = "uninit"

C19_Witness ==
    HeaderReadFailed /\ eof /\ s > 0 /\ sent = << >> /\ ret = ESP_FAIL

(***************************************************************************)
(* C20 (as claimed): esp_ota_write, esp_ota_end and esp_ota_abort are      *)
(* called only on a handle that esp_ota_begin opened in this invocation    *)
(* and that was not released before; after a failed esp_ota_begin none     *)
(* of them is called.                                                      *)
(***************************************************************************)
C20_CallsOnlyOnOpenHandle ==
    /\ (nWrite > 0 \/ nEnd > 0 \/ nAbort > 0) => Opened
    /\ nEnd + nAbort <= 1
    /\ nAbort = 1 => ota_handle = "aborted"
    /\ nEnd = 1 => ota_handle \in {"ended", "endfail"}
    /\ (nBegin = 1 /\ ~ Opened) =>
          (nWrite = 0 /\ nEnd = 0 /\ nAbort = 0)


\* body-loop recv() calls that returned data: all of them while the loop
\* runs, all but the last when the loop was left on len <= 0
BodyDataReads ==
    IF nBodyRecv > 0 /\ len <= 0 THEN nBodyRecv - 1 ELSE nBodyRecv

(***************************************************************************)
(* C21 (as claimed), the bounds: the header loop makes at most             *)
(* OTA_BUFSIZE - 1 reads (each adds at least one byte to the s bytes       *)
(* accumulated), and the body loop of an upload with declared length       *)
(* imglen makes at most imglen reads that return data.                     *)
(***************************************************************************)
C21_BoundedReads ==
    /\ s <= OTA_BUFSIZE - 1
    /\ BodyDataReads = 0 \/ BodyDataReads <= imglen

=============================================================================
